---- MODULE Spec2Model ----
(***************************************************************************)
(* Model of the crawl pipeline of dandde/crawler: CrawlerEngine::run       *)
(* (src/src/crawler.rs) with its seeding task, its fetch/extract task      *)
(* (for_each_concurrent over the URL channel), its item processor task,    *)
(* the three-party barrier, the ctrl-c race, and the MetricsCollector      *)
(* counters (src/src/metrics/collector.rs).                                *)
(***************************************************************************)
EXTENDS Integers, Sequences, FiniteSets, TLC

\* ---------------------------------------------------------------- bounds
\* largest number of start URLs of the spider
MaxUrls == 2
\* largest number of items one scrape returns
MaxItems == 2
\* largest configured concurrency (0 is a value SpiderConfig accepts)
MaxConc == 2
\* capacity of the URL channel, scaled down from mpsc::channel(1000)
UrlCap == 1
\* capacity of the item channel, scaled down from mpsc::channel(100)
ItemCap == 1
\* longest duration of one scrape call, in milliseconds
MaxDuration == 1
\* number of tasks that call spider.process / spider.close concurrently
MaxCallers == 2
\* number of calls each of them makes
MaxCalls == 3
\* number of field names an extraction rule mapping can use
MaxFields == 2
\* longest result sequence of one field query
MaxSeqLen == 3
\* number of record_success / record_failure calls before a snapshot
MaxRecords == 4
\* longest duration passed to record_success / record_failure, in ms
MaxLatency == 2
\* number of nodes of a document tree
MaxNodes == 3
\* longest sub-selector list of an And / Or selector
MaxList == 2
\* number of configuration files in the directory
MaxFiles == 3
\* number of tasks that call record_success / record_failure concurrently
MaxWriters == 2

\* ------------------------------------------------------ program constants
\* Barrier::new(3): main + processor + scraper
BarrierParties == 3
\* receivers of the state watch channel: new() drops the only one
StateReceivers == 0
\* schema.rs default_concurrency
DefaultConcurrency == 2
\* schema.rs default_delay
DefaultDelay == 500

UrlIds == 1..MaxUrls
\* start_time.elapsed() of one scrape call, as_millis()
Durations == 1..MaxDuration

VARIABLES
    concurrency,      \* CrawlerEngine.concurrency
    num_urls,         \* length of spider.start_urls()
    state,            \* CrawlerEngine.state (the mutex-protected cell)
    state_watcher,    \* value held by the watch channel of state_watcher
    main_pc,          \* position of run()
    interrupted,      \* the ctrl_c branch of the select was taken
    main_arrived,     \* run() has polled barrier.wait()
    barrier_arrived,  \* Barrier state.arrived
    barrier_gen,      \* Barrier state.generation
    urls,             \* content of the URL channel
    urls_senders,     \* live senders of the URL channel
    seed_pc,          \* position of the seeding task
    seed_idx,         \* index of the start URL the seeding task is at
    items,            \* content of the item channel
    items_senders,    \* live senders of the item channel
    scr_pc,           \* position of the scraper task
    branch,           \* per URL: the future for_each_concurrent runs for it
    active_spiders,   \* the AtomicUsize active_spiders
    proc_pc,          \* position of the processor task
    proc_item,        \* item the processor is handling
    close_calls,      \* number of spider.close() calls
    close_failed,     \* spider.close() returned Err
    process_calls,    \* number of spider.process() calls
    process_errors,   \* number of spider.process() calls that returned Err
    late_process,     \* a spider.process() call was made after spider.close()
    attempts,         \* per URL: number of spider.scrape() calls
    urls_enqueued,    \* every value pushed on the URL channel, in push order
    urls_dequeued,    \* every value popped from the URL channel, in pop order
    items_enqueued,   \* number of pushes on the item channel
    sink_last,        \* per URL: index of its last item given to spider.process
    process_count,    \* per item: number of spider.process calls made with it
    log_errors,       \* number of log::error! entries written
    metrics,          \* the MetricsCollector counters
    output_handler,   \* GenericSpider.output_handler: owner of the mutex, 0 if free
    caller_pc,        \* per caller of process/close: its position
    caller_op,        \* per caller: the sink operation of its current call
    calls_made,       \* per caller: number of calls that have returned
    root_selector,    \* GenericSpider.root_selector is Some
    field_results,    \* per rule: the strings its query returns on the page
    extract_pc,       \* position of the extraction part of scrape
    extraction,       \* result of extract_data
    scraped,          \* the items scrape returns
    rec_success,      \* number of record_success calls made
    rec_failure,      \* number of record_failure calls made
    rec_latency,      \* sum of the durations passed to both
    snap,             \* the MetricsSnapshot taken, if any
    document,         \* the parsed document tree
    selector,         \* the CssSelector evaluated
    sel_pc,           \* position of the selector evaluation
    matched,          \* the nodes the selector matched
    ld_pc,            \* position of ConfigLoader::load
    visited,          \* canonical paths load_with_inheritance has entered
    ld_stack,         \* configs of the calls waiting for their parent
    ld_result,        \* result of the innermost call that has returned
    reads,            \* per file: number of times load_file read it
    cycle_at,         \* the visited file the chain came back to, or 0
    wr_pc,            \* per writer: position inside record_success / failure
    wr_op,            \* per writer: the call it is making
    sn_pc,            \* position of the snapshot call
    sn_local          \* the values snapshot has loaded so far

vars == <<concurrency, num_urls, state, state_watcher, main_pc, interrupted,
          main_arrived, barrier_arrived, barrier_gen, urls, urls_senders,
          seed_pc, seed_idx, items, items_senders, scr_pc, branch,
          active_spiders, proc_pc, proc_item, close_calls, close_failed,
          process_calls, process_errors, late_process, attempts, urls_enqueued, urls_dequeued,
          items_enqueued, sink_last, process_count, log_errors, metrics,
          output_handler,
          caller_pc, caller_op, calls_made, root_selector, field_results,
          extract_pc, extraction, scraped, rec_success, rec_failure,
          rec_latency, snap, document, selector, sel_pc, matched, ld_pc,
          visited, ld_stack, ld_result, reads, cycle_at, wr_pc, wr_op,
          sn_pc, sn_local>>

\* ---------------------------------------------------------------- metrics
MetricsDefault ==
    [urls_queued |-> 0, urls_processed |-> 0, urls_pending |-> 0,
     items_extracted |-> 0, items_processed |-> 0, items_failed |-> 0,
     requests_total |-> 0, requests_success |-> 0, requests_failed |-> 0,
     active_workers |-> 0, total_response_time_ms |-> 0]

\* variant: the seeding task does not count the URL
increment_urls_queued_none(m) == m
increment_urls_queued(m) == [m EXCEPT !.urls_queued = @ + 1]
increment_urls_processed(m) == [m EXCEPT !.urls_processed = @ + 1]
\* variant: an extracted item is not counted
increment_items_extracted_none(m) == m
increment_items_extracted(m) == [m EXCEPT !.items_extracted = @ + 1]
increment_items_processed(m) == [m EXCEPT !.items_processed = @ + 1]
\* variant: a write error is not counted
increment_items_failed_none(m) == m
increment_items_failed(m) == [m EXCEPT !.items_failed = @ + 1]
increment_active_workers(m) == [m EXCEPT !.active_workers = @ + 1]
\* variant: a branch that ends is not counted
decrement_active_workers_none(m) == m
\* fetch_sub(1): a value below 0 stands for the wrap-around of the u64
decrement_active_workers(m) == [m EXCEPT !.active_workers = @ - 1]
\* variant: a successful request is counted in requests_total only
record_success_total_only(m, d) ==
    [m EXCEPT !.requests_total = @ + 1, !.total_response_time_ms = @ + d]
record_success(m, d) ==
    [m EXCEPT !.requests_total = @ + 1, !.requests_success = @ + 1,
              !.total_response_time_ms = @ + d]
\* variant: a failed request is left out of requests_total
record_failure_nototal(m, d) ==
    [m EXCEPT !.requests_failed = @ + 1, !.total_response_time_ms = @ + d]
record_failure(m, d) ==
    [m EXCEPT !.requests_total = @ + 1, !.requests_failed = @ + 1,
              !.total_response_time_ms = @ + d]

\* snapshot: the request counters and the two derived values; success_rate
\* (an f64) is kept as the exact fraction num/den
\* variant: the average is taken over the successful requests only
snapshot_avg_over_success(m) ==
    LET total_requests == m.requests_total
        success == m.requests_success
        failed == m.requests_failed
        total_time == m.total_response_time_ms
    IN [urls_queued |-> m.urls_queued,
        urls_processed |-> m.urls_processed,
        urls_pending |-> m.urls_pending,
        items_extracted |-> m.items_extracted,
        items_processed |-> m.items_processed,
        items_failed |-> m.items_failed,
        requests_total |-> total_requests,
        requests_success |-> success,
        requests_failed |-> failed,
        active_workers |-> m.active_workers,
        success_rate |-> IF total_requests > 0
                         THEN [num |-> success * 100, den |-> total_requests]
                         ELSE [num |-> 0, den |-> 1],
        avg_response_time_ms |-> IF success > 0
                                 THEN total_time \div success
                                 ELSE 0]
\* collector.rs 90-130: snapshot
snapshot(m) ==
    LET total_requests == m.requests_total
        success == m.requests_success
        failed == m.requests_failed
        total_time == m.total_response_time_ms
    IN [urls_queued |-> m.urls_queued,
        urls_processed |-> m.urls_processed,
        urls_pending |-> m.urls_pending,
        items_extracted |-> m.items_extracted,
        items_processed |-> m.items_processed,
        items_failed |-> m.items_failed,
        requests_total |-> total_requests,
        requests_success |-> success,
        requests_failed |-> failed,
        active_workers |-> m.active_workers,
        success_rate |-> IF total_requests > 0
                         THEN [num |-> success * 100, den |-> total_requests]
                         ELSE [num |-> 0, den |-> 1],
        avg_response_time_ms |-> IF total_requests > 0
                                 THEN total_time \div total_requests
                                 ELSE 0]

\* ------------------------------------------------------------- primitives
\* watch::Sender::send: with no receiver the call fails and keeps the value
WatchSend(cur, s) == IF StateReceivers = 0 THEN cur ELSE s

\* variant: the cell is locked but the new state is not stored
set_state_nostore(s) ==
    /\ state' = state
    /\ state_watcher' = WatchSend(state_watcher, s)

\* set_state: lock the cell, store, send on the watch channel
set_state(s) ==
    /\ state' = s
    /\ state_watcher' = WatchSend(state_watcher, s)

\* variant: a send never waits for a free slot
CanSend_unbounded(q, cap) == TRUE
\* mpsc: a send completes only when the channel has a free slot
CanSend(q, cap) == Len(q) < cap
\* variant: the stream ends as soon as nothing is queued
StreamEnded_empty(q, senders) == q = <<>>
\* mpsc: the receiving stream ends when no sender is left and nothing is queued
StreamEnded(q, senders) == senders = 0 /\ q = <<>>

\* Barrier::wait, arrival: the last of the parties releases the generation
BarrierLeader == barrier_arrived + 1 = BarrierParties
BarrierArrive ==
    IF BarrierLeader
    THEN /\ barrier_arrived' = 0
         /\ barrier_gen' = barrier_gen + 1
    ELSE /\ barrier_arrived' = barrier_arrived + 1
         /\ barrier_gen' = barrier_gen
\* Barrier::wait, a waiter of generation 0 resumes once it has been released
BarrierReleased == barrier_gen > 0

\* variant: a slot is given back as soon as the branch starts its delay
InFlight_until_delay == {u \in UrlIds : branch[u].pc \in {"scrape", "send"}}
\* a future of for_each_concurrent that has started and not completed
InFlight == {u \in UrlIds : branch[u].pc \in {"scrape", "send", "sleep"}}

\* for_each_concurrent(limit): a limit of 0 means no limit
HasFreeSlot == concurrency = 0 \/ Cardinality(InFlight) < concurrency

\* variant: completion does not wait for the futures still running
ForEachConcurrentDone_early == StreamEnded(urls, urls_senders)
\* for_each_concurrent completes when the stream ended and no future is left
ForEachConcurrentDone == StreamEnded(urls, urls_senders) /\ InFlight = {}

\* variant: the items of one scrape are pushed last to first
ItemAt_reversed(u, n, total) == <<u, total - n + 1>>
\* for item in items: the n-th item of the Vec scrape returned for URL u; a
\* queued item is this pair followed by its push number
ItemAt(u, n, total) == <<u, n>>

NoBranch == [pc |-> "none", result |-> "none", total |-> 0, next |-> 0]

\* ------------------------------------------------------------------- Init
\* GenericSpider::new: the sink sits behind a free mutex, nobody calls it
Callers == 1..MaxCallers
SinkIdle ==
    /\ output_handler = 0
    /\ caller_pc = [c \in Callers |-> "idle"]
    /\ caller_op = [c \in Callers |-> "none"]
    /\ calls_made = [c \in Callers |-> 0]

\* no page is being extracted
NoExtraction == [ok |-> FALSE, item |-> <<>>, err |-> ""]
ExtractIdle ==
    /\ root_selector = FALSE
    /\ field_results = <<>>
    /\ extract_pc = "idle"
    /\ extraction = NoExtraction
    /\ scraped = <<>>

\* no snapshot was taken
NoSnapshot == [taken |-> FALSE, value |-> snapshot(MetricsDefault)]
RecIdle ==
    /\ rec_success = 0
    /\ rec_failure = 0
    /\ rec_latency = 0
    /\ snap = NoSnapshot

\* no selector is being evaluated
SelIdle ==
    /\ document = [parent |-> <<0>>, node |-> <<[name |-> "a", attrs |-> <<>>]>>]
    /\ selector = [kind |-> "Tag", name |-> "a"]
    /\ sel_pc = "idle"
    /\ matched = {}

Files == 1..MaxFiles
\* Option<String>: <<>> is None, <<s>> is Some(s)
None == <<>>
\* serde defaults of SpiderConfig
ConfigDefault ==
    [name |-> "", start_urls |-> <<>>, root_selector |-> None,
     extraction_rules |-> <<>>, concurrency |-> DefaultConcurrency,
     delay_ms |-> DefaultDelay, output |-> None, extends |-> None]
NoResult == [ok |-> FALSE, config |-> ConfigDefault, err |-> ""]
\* load has not been called
LoadIdle ==
    /\ ld_pc = "idle"
    /\ visited = {}
    /\ ld_stack = <<>>
    /\ ld_result = NoResult
    /\ reads = [f \in Files |-> 0]
    /\ cycle_at = 0

Writers == 1..MaxWriters
NoLoads == [total_requests |-> 0, success |-> 0, failed |-> 0]
\* no call of the collector is in progress
ConcIdle ==
    /\ wr_pc = [w \in Writers |-> "idle"]
    /\ wr_op = [w \in Writers |-> "none"]
    /\ sn_pc = "idle"
    /\ sn_local = NoLoads

\* CrawlerEngine::new with a fresh MetricsCollector, before run
PipeInit ==
    /\ concurrency \in 0..MaxConc
    /\ num_urls \in 0..MaxUrls
    /\ state = "Idle"
    /\ state_watcher = "Idle"
    /\ main_pc = "new"
    /\ interrupted = FALSE
    /\ main_arrived = FALSE
    /\ barrier_arrived = 0
    /\ barrier_gen = 0
    /\ urls = <<>>
    /\ urls_senders = 0
    /\ seed_pc = "idle"
    /\ seed_idx = 1
    /\ items = <<>>
    /\ items_senders = 0
    /\ scr_pc = "idle"
    /\ branch = [u \in UrlIds |-> NoBranch]
    /\ active_spiders = 0
    /\ proc_pc = "idle"
    /\ proc_item = <<>>
    /\ close_calls = 0
    /\ close_failed = FALSE
    /\ process_calls = 0
    /\ process_errors = 0
    /\ late_process = FALSE
    /\ attempts = [u \in UrlIds |-> 0]
    /\ urls_enqueued = <<>>
    /\ urls_dequeued = <<>>
    /\ items_enqueued = 0
    /\ sink_last = [u \in UrlIds |-> 0]
    /\ process_count = [u \in UrlIds |-> [i \in 1..MaxItems |-> 0]]
    /\ log_errors = 0
    /\ metrics = MetricsDefault

\* the engine with a spider whose sink only the processor task uses
Init ==
    /\ PipeInit
    /\ SinkIdle
    /\ ExtractIdle
    /\ RecIdle
    /\ SelIdle
    /\ LoadIdle
    /\ ConcIdle

\* ------------------------------------------------------------ run (driver)
uSink == <<output_handler, caller_pc, caller_op, calls_made>>
uExtract == <<root_selector, field_results, extract_pc, extraction, scraped>>
uRec == <<rec_success, rec_failure, rec_latency, snap>>
uSel == <<document, selector, sel_pc, matched>>
uLoad == <<ld_pc, visited, ld_stack, ld_result, reads, cycle_at>>
uConc == <<wr_pc, wr_op, sn_pc, sn_local>>
uMain == <<concurrency, num_urls, uSink, uExtract, uRec, uSel, uLoad, uConc>>
uBarrier == <<barrier_arrived, barrier_gen>>
uSeed == <<seed_pc, seed_idx, urls_enqueued>>
uScraper == <<scr_pc, branch, active_spiders, attempts, urls_dequeued,
              items_enqueued>>
uLog == <<sink_last, process_count, log_errors>>
uProc == <<proc_pc, proc_item, close_calls, close_failed, process_calls,
           process_errors, late_process>>

\* run, line 40: set_state(Running)
RunStart ==
    /\ main_pc = "new"
    /\ set_state("Running")
    /\ main_pc' = "spawn"
    /\ UNCHANGED <<uMain, uLog, interrupted, main_arrived, uBarrier, urls,
                   urls_senders, uSeed, items, items_senders, uScraper, uProc,
                   metrics>>

\* variant: run keeps its own item sender (no drop(items_tx))
RunSpawn_keeps_items_tx ==
    /\ main_pc = "spawn"
    /\ main_pc' = "select"
    /\ urls_senders' = 1
    /\ items_senders' = 2
    /\ seed_pc' = "send"
    /\ proc_pc' = "recv"
    /\ scr_pc' = "stream"
    /\ UNCHANGED <<uMain, uLog, state, state_watcher, interrupted, main_arrived,
                   uBarrier, urls, seed_idx, urls_enqueued, items, branch,
                   active_spiders, attempts, urls_dequeued, items_enqueued,
                   proc_item, close_calls, close_failed, process_calls,
                   process_errors, late_process, metrics>>

\* run, lines 42-132: create both channels and the barrier, spawn the three
\* tasks, drop the driver's own senders
RunSpawn ==
    /\ main_pc = "spawn"
    /\ main_pc' = "select"
    /\ urls_senders' = 1
    /\ items_senders' = 1
    /\ seed_pc' = "send"
    /\ proc_pc' = "recv"
    /\ scr_pc' = "stream"
    /\ UNCHANGED <<uMain, uLog, state, state_watcher, interrupted, main_arrived,
                   uBarrier, urls, seed_idx, urls_enqueued, items, branch,
                   active_spiders, attempts, urls_dequeued, items_enqueued,
                   proc_item, close_calls, close_failed, process_calls,
                   process_errors, late_process, metrics>>

\* run, line 140: the select polls barrier.wait(), which counts the arrival
MainArrive ==
    /\ main_pc = "select"
    /\ ~main_arrived
    /\ main_arrived' = TRUE
    /\ BarrierArrive
    /\ main_pc' = IF BarrierLeader THEN "finished" ELSE "select"
    /\ UNCHANGED <<uMain, uLog, state, state_watcher, interrupted, urls,
                   urls_senders, uSeed, items, items_senders, uScraper, uProc,
                   metrics>>

\* run, lines 140-142: barrier.wait() completes ("Crawl finished.")
MainReleased ==
    /\ main_pc = "select"
    /\ main_arrived
    /\ BarrierReleased
    /\ main_pc' = "finished"
    /\ UNCHANGED <<uMain, uLog, state, state_watcher, interrupted, main_arrived,
                   uBarrier, urls, urls_senders, uSeed, items, items_senders,
                   uScraper, uProc, metrics>>

\* variant: the ctrl_c branch aborts the spawned tasks
Interrupt_abort ==
    /\ main_pc = "select"
    /\ interrupted' = TRUE
    /\ set_state("Stopped")
    /\ main_pc' = "finished"
    /\ scr_pc' = "done"
    /\ proc_pc' = "done"
    /\ UNCHANGED <<uMain, uLog, main_arrived, uBarrier, urls, urls_senders, uSeed,
                   items, items_senders, branch, active_spiders, attempts,
                   urls_dequeued, items_enqueued, proc_item, close_calls,
                   close_failed, process_calls, process_errors, late_process,
                   metrics>>

\* run, lines 136-139: ctrl_c completes first; set_state(Stopped)
Interrupt ==
    /\ main_pc = "select"
    /\ interrupted' = TRUE
    /\ set_state("Stopped")
    /\ main_pc' = "finished"
    /\ UNCHANGED <<uMain, uLog, main_arrived, uBarrier, urls, urls_senders, uSeed,
                   items, items_senders, uScraper, uProc, metrics>>

\* run, line 145: set_state(Stopped) and return
RunReturn ==
    /\ main_pc = "finished"
    /\ set_state("Stopped")
    /\ main_pc' = "returned"
    /\ UNCHANGED <<uMain, uLog, interrupted, main_arrived, uBarrier, urls,
                   urls_senders, uSeed, items, items_senders, uScraper, uProc,
                   metrics>>

\* ------------------------------------------------------------ seeding task
\* lines 53-54: urls_tx_seed.send(url).await
SeedSend ==
    /\ seed_pc = "send"
    /\ seed_idx <= num_urls
    /\ CanSend(urls, UrlCap)
    /\ urls' = Append(urls, seed_idx)
    /\ urls_enqueued' = Append(urls_enqueued, seed_idx)
    /\ seed_pc' = "count"
    /\ UNCHANGED <<uMain, uLog, state, state_watcher, main_pc, interrupted,
                   main_arrived, uBarrier, urls_senders, seed_idx, items,
                   items_senders, uScraper, uProc, metrics>>

\* line 55: metrics_seed.increment_urls_queued()
SeedCount ==
    /\ seed_pc = "count"
    /\ metrics' = increment_urls_queued(metrics)
    /\ seed_idx' = seed_idx + 1
    /\ seed_pc' = "send"
    /\ UNCHANGED <<uMain, uLog, state, state_watcher, main_pc, interrupted,
                   main_arrived, uBarrier, urls, urls_senders, urls_enqueued,
                   items, items_senders, uScraper, uProc>>

\* lines 56-57: the loop is over, the task ends and drops urls_tx_seed
SeedFinish ==
    /\ seed_pc = "send"
    /\ seed_idx > num_urls
    /\ seed_pc' = "done"
    /\ urls_senders' = urls_senders - 1
    /\ UNCHANGED <<uMain, uLog, state, state_watcher, main_pc, interrupted,
                   main_arrived, uBarrier, urls, seed_idx, urls_enqueued,
                   items, items_senders, uScraper, uProc, metrics>>

\* ------------------------------------------------------------ scraper task
\* lines 92-100: for_each_concurrent takes the next URL, builds its future
\* (with a clone of the item sender) and runs it up to spider.scrape
ScraperPop ==
    /\ scr_pc = "stream"
    /\ urls /= <<>>
    /\ HasFreeSlot
    /\ LET u == Head(urls) IN
         /\ urls' = Tail(urls)
         /\ urls_dequeued' = Append(urls_dequeued, u)
         /\ branch' = [branch EXCEPT ![u] = [NoBranch EXCEPT !.pc = "scrape"]]
         /\ attempts' = [attempts EXCEPT ![u] = @ + 1]
    /\ items_senders' = items_senders + 1
    /\ active_spiders' = active_spiders + 1
    /\ metrics' = increment_active_workers(metrics)
    /\ UNCHANGED <<uMain, uLog, state, state_watcher, main_pc, interrupted,
                   main_arrived, uBarrier, urls_senders, uSeed, items, scr_pc,
                   items_enqueued, uProc>>

\* lines 103-111: scrape returned Ok with k items; record_success,
\* increment_urls_processed, and the loop reaches its first send
ScrapeOk(u, k, d) ==
    /\ branch[u].pc = "scrape"
    /\ LET m1 == increment_urls_processed(record_success(metrics, d)) IN
         metrics' = IF k > 0 THEN increment_items_extracted(m1) ELSE m1
    /\ branch' = [branch EXCEPT ![u] =
                     [pc |-> IF k > 0 THEN "send" ELSE "sleep",
                      result |-> "ok", total |-> k, next |-> 1]]
    /\ UNCHANGED <<uMain, uLog, state, state_watcher, main_pc, interrupted,
                   main_arrived, uBarrier, urls, urls_senders, uSeed, items,
                   items_senders, scr_pc, active_spiders, attempts,
                   urls_dequeued, items_enqueued, uProc>>

\* lines 116-119: scrape returned Err; record_failure
ScrapeErr(u, d) ==
    /\ branch[u].pc = "scrape"
    /\ metrics' = record_failure(metrics, d)
    /\ log_errors' = log_errors + 1
    /\ branch' = [branch EXCEPT ![u] =
                     [pc |-> "sleep", result |-> "err", total |-> 0,
                      next |-> 1]]
    /\ UNCHANGED <<uMain, sink_last, process_count, state, state_watcher,
                   main_pc, interrupted,
                   main_arrived, uBarrier, urls, urls_senders, uSeed, items,
                   items_senders, scr_pc, active_spiders, attempts,
                   urls_dequeued, items_enqueued, uProc>>

\* lines 110-113: items_tx.send(item).await completes; the loop goes on to
\* the next item (increment_items_extracted) or ends
BranchSend(u) ==
    /\ branch[u].pc = "send"
    /\ CanSend(items, ItemCap)
    /\ items' = Append(items, ItemAt(u, branch[u].next, branch[u].total)
                                 \o <<items_enqueued + 1>>)
    /\ items_enqueued' = items_enqueued + 1
    /\ IF branch[u].next < branch[u].total
       THEN /\ branch' = [branch EXCEPT ![u].next = @ + 1]
            /\ metrics' = increment_items_extracted(metrics)
       ELSE /\ branch' = [branch EXCEPT ![u].pc = "sleep"]
            /\ metrics' = metrics
    /\ UNCHANGED <<uMain, uLog, state, state_watcher, main_pc, interrupted,
                   main_arrived, uBarrier, urls, urls_senders, uSeed,
                   items_senders, scr_pc, active_spiders, attempts,
                   urls_dequeued, uProc>>

\* lines 122-125: the delay elapsed; decrement both counters, the future
\* completes and drops its clone of the item sender
BranchWake(u) ==
    /\ branch[u].pc = "sleep"
    /\ active_spiders' = active_spiders - 1
    /\ metrics' = decrement_active_workers(metrics)
    /\ branch' = [branch EXCEPT ![u].pc = "done"]
    /\ items_senders' = items_senders - 1
    /\ UNCHANGED <<uMain, uLog, state, state_watcher, main_pc, interrupted,
                   main_arrived, uBarrier, urls, urls_senders, uSeed, items,
                   scr_pc, attempts, urls_dequeued, items_enqueued, uProc>>

\* lines 126-131: for_each_concurrent completed; drop(items_tx_scraper) and
\* barrier.wait()
ScraperFinish ==
    /\ scr_pc = "stream"
    /\ ForEachConcurrentDone
    /\ items_senders' = items_senders - 1
    /\ BarrierArrive
    /\ scr_pc' = IF BarrierLeader THEN "done" ELSE "barrier"
    /\ UNCHANGED <<uMain, uLog, state, state_watcher, main_pc, interrupted,
                   main_arrived, urls, urls_senders, uSeed, items, branch,
                   active_spiders, attempts, urls_dequeued, items_enqueued,
                   uProc, metrics>>

\* line 131: barrier.wait() completes, the task ends
ScraperReleased ==
    /\ scr_pc = "barrier"
    /\ BarrierReleased
    /\ scr_pc' = "done"
    /\ UNCHANGED <<uMain, uLog, state, state_watcher, main_pc, interrupted,
                   main_arrived, uBarrier, urls, urls_senders, uSeed, items,
                   items_senders, branch, active_spiders, attempts,
                   urls_dequeued, items_enqueued, uProc, metrics>>

\* ---------------------------------------------------------- processor task
\* variant: the item taken from the stream is dropped without a process call
ProcRecv_drop ==
    /\ proc_pc = "recv"
    /\ items /= <<>>
    /\ proc_item' = <<>>
    /\ items' = Tail(items)
    /\ metrics' = increment_items_processed(metrics)
    /\ proc_pc' = "recv"
    /\ UNCHANGED <<uMain, uLog, state, state_watcher, main_pc, interrupted,
                   main_arrived, uBarrier, urls, urls_senders, uSeed,
                   items_senders, uScraper, close_calls, close_failed,
                   process_calls, process_errors, late_process>>
\* lines 69-71: the stream yields an item; increment_items_processed
ProcRecv ==
    /\ proc_pc = "recv"
    /\ items /= <<>>
    /\ proc_item' = Head(items)
    /\ items' = Tail(items)
    /\ metrics' = increment_items_processed(metrics)
    /\ proc_pc' = "process"
    /\ UNCHANGED <<uMain, uLog, state, state_watcher, main_pc, interrupted,
                   main_arrived, uBarrier, urls, urls_senders, uSeed,
                   items_senders, uScraper, close_calls, close_failed,
                   process_calls, process_errors, late_process>>

\* lines 72-75: spider.process(item) returned; on Err increment_items_failed
ProcProcess(ok) ==
    /\ proc_pc = "process"
    /\ process_calls' = process_calls + 1
    /\ process_errors' = IF ok THEN process_errors ELSE process_errors + 1
    /\ late_process' = (late_process \/ close_calls > 0)
    /\ metrics' = IF ok THEN metrics ELSE increment_items_failed(metrics)
    /\ sink_last' = [sink_last EXCEPT ![proc_item[1]] = proc_item[2]]
    /\ process_count' =
           [process_count EXCEPT ![proc_item[1]][proc_item[2]] = @ + 1]
    /\ log_errors' = IF ok THEN log_errors ELSE log_errors + 1
    /\ proc_item' = <<>>
    /\ proc_pc' = "recv"
    /\ UNCHANGED <<uMain, state, state_watcher, main_pc, interrupted,
                   main_arrived, uBarrier, urls, urls_senders, uSeed, items,
                   items_senders, uScraper, close_calls, close_failed>>

\* line 76: the item stream ended, for_each completes
ProcStreamEnd ==
    /\ proc_pc = "recv"
    /\ StreamEnded(items, items_senders)
    /\ proc_pc' = "close"
    /\ UNCHANGED <<uMain, uLog, state, state_watcher, main_pc, interrupted,
                   main_arrived, uBarrier, urls, urls_senders, uSeed, items,
                   items_senders, uScraper, proc_item, close_calls,
                   close_failed, process_calls, process_errors, late_process, metrics>>

\* line 78: let _ = spider_clone.close().await
ProcClose(ok) ==
    /\ proc_pc = "close"
    /\ close_calls' = close_calls + 1
    /\ close_failed' = ~ok
    /\ proc_pc' = "arrive"
    /\ UNCHANGED <<uMain, uLog, state, state_watcher, main_pc, interrupted,
                   main_arrived, uBarrier, urls, urls_senders, uSeed, items,
                   items_senders, uScraper, proc_item, process_calls,
                   process_errors, late_process, metrics>>

\* line 79: barrier_clone.wait() counts the arrival
ProcArrive ==
    /\ proc_pc = "arrive"
    /\ BarrierArrive
    /\ proc_pc' = IF BarrierLeader THEN "done" ELSE "barrier"
    /\ UNCHANGED <<uMain, uLog, state, state_watcher, main_pc, interrupted,
                   main_arrived, urls, urls_senders, uSeed, items,
                   items_senders, uScraper, proc_item, close_calls,
                   close_failed, process_calls, process_errors, late_process, metrics>>

\* lines 79-80: barrier.wait() completes, the task ends
ProcReleased ==
    /\ proc_pc = "barrier"
    /\ BarrierReleased
    /\ proc_pc' = "done"
    /\ UNCHANGED <<uMain, uLog, state, state_watcher, main_pc, interrupted,
                   main_arrived, uBarrier, urls, urls_senders, uSeed, items,
                   items_senders, uScraper, proc_item, close_calls,
                   close_failed, process_calls, process_errors, late_process, metrics>>

\* ----------------------------------------------------------- specification
Pipeline ==
    \/ RunStart
    \/ RunSpawn
    \/ MainArrive
    \/ MainReleased
    \/ RunReturn
    \/ SeedSend
    \/ SeedCount
    \/ SeedFinish
    \/ ScraperPop
    \/ \E u \in UrlIds : \E k \in 0..MaxItems : \E d \in Durations :
           ScrapeOk(u, k, d)
    \/ \E u \in UrlIds : \E d \in Durations : ScrapeErr(u, d)
    \/ \E u \in UrlIds : BranchSend(u)
    \/ \E u \in UrlIds : BranchWake(u)
    \/ ScraperFinish
    \/ ScraperReleased
    \/ ProcRecv
    \/ \E ok \in BOOLEAN : ProcProcess(ok)
    \/ ProcStreamEnd
    \/ \E ok \in BOOLEAN : ProcClose(ok)
    \/ ProcArrive
    \/ ProcReleased

Next == Pipeline \/ Interrupt

Spec == Init /\ [][Next]_vars

\* every stage is scheduled fairly and every scrape, write, close and delay
\* terminates; the interrupt may or may not arrive
FairSpec == Spec /\ WF_vars(Pipeline)

\* --------------------------------------------- GenericSpider process / close
\* everything CrawlerEngine::run works on
pipeVars == <<concurrency, num_urls, state, state_watcher, main_pc,
              interrupted, main_arrived, barrier_arrived, barrier_gen, urls,
              urls_senders, seed_pc, seed_idx, items, items_senders, scr_pc,
              branch, active_spiders, proc_pc, proc_item, close_calls,
              close_failed, process_calls, process_errors, late_process,
              attempts, urls_enqueued, urls_dequeued, items_enqueued,
              sink_last, process_count, log_errors>>

\* variant: the sink is used without waiting for the mutex
MutexFree_always == TRUE
\* tokio Mutex::lock completes only while nobody holds the guard
MutexFree == output_handler = 0

\* spider.rs 186-187: process(item) is called and awaits output_handler.lock()
CallProcess(c) ==
    /\ caller_pc[c] = "idle"
    /\ calls_made[c] < MaxCalls
    /\ caller_pc' = [caller_pc EXCEPT ![c] = "lock"]
    /\ caller_op' = [caller_op EXCEPT ![c] = "write"]
    /\ UNCHANGED <<pipeVars, uConc, uLoad, metrics, uExtract, uRec, uSel, output_handler, calls_made>>

\* spider.rs 191-192: close() is called and awaits output_handler.lock()
CallClose(c) ==
    /\ caller_pc[c] = "idle"
    /\ calls_made[c] < MaxCalls
    /\ caller_pc' = [caller_pc EXCEPT ![c] = "lock"]
    /\ caller_op' = [caller_op EXCEPT ![c] = "close"]
    /\ UNCHANGED <<pipeVars, uConc, uLoad, metrics, uExtract, uRec, uSel, output_handler, calls_made>>

\* spider.rs 187-188, 192-193: the guard is obtained and handler.write(item)
\* or handler.close() starts
LockAcquired(c) ==
    /\ caller_pc[c] = "lock"
    /\ MutexFree
    /\ output_handler' = c
    /\ caller_pc' = [caller_pc EXCEPT ![c] = "op"]
    /\ UNCHANGED <<pipeVars, uConc, uLoad, metrics, uExtract, uRec, uSel, caller_op, calls_made>>

\* spider.rs 188-189, 193-194: the sink operation returns, the guard is
\* dropped with the end of the function
OpReturn(c) ==
    /\ caller_pc[c] = "op"
    /\ output_handler' = 0
    /\ caller_pc' = [caller_pc EXCEPT ![c] = "idle"]
    /\ caller_op' = [caller_op EXCEPT ![c] = "none"]
    /\ calls_made' = [calls_made EXCEPT ![c] = @ + 1]
    /\ UNCHANGED <<pipeVars, uConc, uLoad, metrics, uExtract, uRec, uSel>>

\* a spider shared by several tasks, no crawl running
PipeIdle == PipeInit /\ concurrency = 0 /\ num_urls = 0
SinkInit == PipeIdle /\ SinkIdle /\ ExtractIdle /\ RecIdle /\ SelIdle /\ LoadIdle /\
    ConcIdle
SinkNext ==
    \/ \E c \in Callers : CallProcess(c)
    \/ \E c \in Callers : CallClose(c)
    \/ \E c \in Callers : LockAcquired(c)
    \/ \E c \in Callers : OpReturn(c)
SinkSpec == SinkInit /\ [][SinkNext]_vars

\* ------------------------------------------------ GenericSpider::scrape
FieldNames == 1..MaxFields
\* the strings a query can return for one match
Vals == {"", "a"}
\* the result sequences a query can return
ResultSeqs == UNION {[1..n -> Vals] : n \in 0..MaxSeqLen}

\* variant: the items are cut at the shortest result sequence
max_len_shortest(fr) ==
    IF DOMAIN fr = {} THEN 0
    ELSE CHOOSE n \in {Len(fr[f]) : f \in DOMAIN fr} :
             \A f \in DOMAIN fr : n <= Len(fr[f])
\* spider.rs 144-157: max_len = max over the rules of results.len()
max_len(fr) ==
    IF DOMAIN fr = {} THEN 0
    ELSE CHOOSE n \in {Len(fr[f]) : f \in DOMAIN fr} :
             \A f \in DOMAIN fr : Len(fr[f]) <= n

\* spider.rs 166-171: the item of index i, with the fields that have results.get(i)
AlignedItem(fr, i) ==
    [f \in {g \in DOMAIN fr : i <= Len(fr[g])} |-> fr[f][i]]

\* spider.rs 165-175: for i in 0..max_len, push the item unless it is empty
RECURSIVE AlignFrom(_, _, _)
AlignFrom(fr, i, n) ==
    IF i > n THEN <<>>
    ELSE (IF DOMAIN AlignedItem(fr, i) /= {} THEN <<AlignedItem(fr, i)>>
          ELSE <<>>) \o AlignFrom(fr, i + 1, n)

\* cs.select: the first match of the query, or the empty string
select(results) == IF results = <<>> THEN "" ELSE results[1]

\* variant: a field is inserted whether or not its value is empty
extract_data_keep_empty(fr) ==
    LET item == [f \in DOMAIN fr |-> select(fr[f])]
    IN IF DOMAIN item /= {}
       THEN [ok |-> TRUE, item |-> item, err |-> ""]
       ELSE [ok |-> FALSE, item |-> <<>>, err |-> "Extraction"]
\* spider.rs 71-101: extract_data
extract_data(fr) ==
    LET item == [f \in {g \in DOMAIN fr : select(fr[g]) /= ""} |->
                     select(fr[f])]
        found_data == DOMAIN item /= {}
    IN IF found_data
       THEN [ok |-> TRUE, item |-> item, err |-> ""]
       ELSE [ok |-> FALSE, item |-> <<>>, err |-> "Extraction"]

\* spider.rs 131-175: scrape with a root selector
ScrapeRoot ==
    /\ extract_pc = "parsed"
    /\ root_selector
    /\ scraped' = AlignFrom(field_results, 1, max_len(field_results))
    /\ extract_pc' = "done"
    /\ UNCHANGED <<pipeVars, uConc, uLoad, metrics, uSink, uRec, uSel, root_selector,
                   field_results, extraction>>

\* spider.rs 176-181: scrape in single item mode
ScrapeSingle ==
    /\ extract_pc = "parsed"
    /\ ~root_selector
    /\ extraction' = extract_data(field_results)
    /\ scraped' = IF extract_data(field_results).ok
                  THEN <<extract_data(field_results).item>>
                  ELSE <<>>
    /\ extract_pc' = "done"
    /\ UNCHANGED <<pipeVars, uConc, uLoad, metrics, uSink, uRec, uSel, root_selector,
                   field_results>>

\* a fetched page, parsed, with the results of every rule's query
ExtractInit ==
    /\ PipeIdle
    /\ ConcIdle
    /\ LoadIdle
    /\ SinkIdle
    /\ RecIdle
    /\ SelIdle
    /\ root_selector \in BOOLEAN
    /\ \E rules \in SUBSET FieldNames : field_results \in [rules -> ResultSeqs]
    /\ extract_pc = "parsed"
    /\ extraction = NoExtraction
    /\ scraped = <<>>
ExtractNext == ScrapeRoot \/ ScrapeSingle
ExtractSpec == ExtractInit /\ [][ExtractNext]_vars

\* ------------------------------------------------- MetricsCollector calls
Latencies == 0..MaxLatency

\* collector.rs 76-81: one record_success call, run to completion
RecordSuccess(d) ==
    /\ ~snap.taken
    /\ rec_success + rec_failure < MaxRecords
    /\ metrics' = record_success(metrics, d)
    /\ rec_success' = rec_success + 1
    /\ rec_latency' = rec_latency + d
    /\ UNCHANGED <<pipeVars, uConc, uLoad, uSink, uExtract, uSel, rec_failure, snap>>

\* collector.rs 83-88: one record_failure call, run to completion
RecordFailure(d) ==
    /\ ~snap.taken
    /\ rec_success + rec_failure < MaxRecords
    /\ metrics' = record_failure(metrics, d)
    /\ rec_failure' = rec_failure + 1
    /\ rec_latency' = rec_latency + d
    /\ UNCHANGED <<pipeVars, uConc, uLoad, uSink, uExtract, uSel, rec_success, snap>>

\* collector.rs 90-130: snapshot, with no record call in progress
TakeSnapshot ==
    /\ ~snap.taken
    /\ snap' = [taken |-> TRUE, value |-> snapshot(metrics)]
    /\ UNCHANGED <<pipeVars, uConc, uLoad, uSink, uExtract, uSel, metrics, rec_success,
                   rec_failure, rec_latency>>

MetricsInit == PipeIdle /\ SinkIdle /\ ExtractIdle /\ RecIdle /\ SelIdle /\ LoadIdle /\
    ConcIdle
MetricsNext ==
    \/ \E d \in Latencies : RecordSuccess(d)
    \/ \E d \in Latencies : RecordFailure(d)
    \/ TakeSnapshot
MetricsSpec == MetricsInit /\ [][MetricsNext]_vars

\* ------------------------------------------------- CssSelector::matches
\* an attribute value is kept as its whitespace separated tokens
NoAttrs == <<>>
ClassX == [k \in {"class"} |-> <<"x">>]
NodeShapes == {[name |-> "a", attrs |-> NoAttrs],
               [name |-> "a", attrs |-> ClassX],
               [name |-> "b", attrs |-> NoAttrs]}
\* parent[n] = 0: node.parent() is None; parents precede their children
ParentMaps(k) == {p \in [1..k -> 0..(k - 1)] : \A n \in 1..k : p[n] < n}
Documents ==
    UNION {[parent : ParentMaps(k), node : [1..k -> NodeShapes]] :
               k \in 1..MaxNodes}
Nodes(doc) == DOMAIN doc.node

Leaves == {[kind |-> "Tag", name |-> "a"], [kind |-> "Class", name |-> "x"]}
Desc(a, d) == [kind |-> "Descendant", ancestor |-> a, descendant |-> d]
Chld(p, c) == [kind |-> "Child", parent |-> p, child |-> c]
Combine(A, B) == {Desc(a, b) : a \in A, b \in B} \cup
                 {Chld(a, b) : a \in A, b \in B}
Nested == Leaves \cup Combine(Leaves, Leaves)
And(l) == [kind |-> "And", list |-> l]
Or(l) == [kind |-> "Or", list |-> l]
AndEmpty == And(<<>>)
OrEmpty == Or(<<>>)
Lists(S) == UNION {[1..k -> S] : k \in 0..MaxList}
\* And and Or selectors over leaves and empty And / Or selectors
Junctions ==
    {And(l) : l \in Lists(Leaves \cup {AndEmpty, OrEmpty})} \cup
    {Or(l) : l \in Lists(Leaves \cup {AndEmpty, OrEmpty})}
\* Descendant and Child selectors, one side possibly nested or an empty
\* And / Or, and the And / Or selectors
Selectors ==
    Combine(Nested, Leaves) \cup Combine(Leaves, Nested) \cup
    Combine({AndEmpty, OrEmpty}, Leaves) \cup
    Combine(Leaves, {AndEmpty, OrEmpty}) \cup Junctions

\* variant: an empty list satisfies neither
all_nonempty(bs) == bs /= <<>> /\ \A i \in 1..Len(bs) : bs[i]
\* Iterator::all over the match results of the sub-selectors
all(bs) == \A i \in 1..Len(bs) : bs[i]
\* Iterator::any over the match results of the sub-selectors
any(bs) == \E i \in 1..Len(bs) : bs[i]

\* node.attr(key)
HasAttr(nd, key) == key \in DOMAIN nd.attrs

\* variant: the walk starts at the node itself
WalkStart_self(doc, n) == n
\* selector.rs 100: let mut current = node.parent()
WalkStart(doc, n) == doc.parent[n]

RECURSIVE Matches(_, _, _)
RECURSIVE AncestorWalk(_, _, _)
\* variant: the parent is skipped, the walk starts above it
AncestorWalk_above_parent(sel, doc, current) ==
    IF current = 0 THEN FALSE
    ELSE AncestorWalk(sel, doc, doc.parent[current])
\* selector.rs 101-107: while let Some(parent) = current
AncestorWalk(sel, doc, current) ==
    IF current = 0 THEN FALSE
    ELSE IF Matches(sel, doc, current) THEN TRUE
    ELSE AncestorWalk(sel, doc, doc.parent[current])
\* selector.rs 79-113: CssSelector::matches
Matches(sel, doc, n) ==
    LET nd == doc.node[n]
    IN CASE sel.kind = "Tag" -> nd.name = sel.name
         [] sel.kind = "Class" ->
                /\ HasAttr(nd, "class")
                /\ \E i \in 1..Len(nd.attrs["class"]) :
                       nd.attrs["class"][i] = sel.name
         [] sel.kind = "Id" ->
                HasAttr(nd, "id") /\ nd.attrs["id"] = <<sel.name>>
         [] sel.kind = "Attribute" ->
                /\ HasAttr(nd, sel.key)
                /\ sel.has_value => nd.attrs[sel.key] = sel.value
         [] sel.kind = "And" ->
                all([i \in 1..Len(sel.list) |->
                         Matches(sel.list[i], doc, n)])
         [] sel.kind = "Or" ->
                any([i \in 1..Len(sel.list) |->
                         Matches(sel.list[i], doc, n)])
         [] sel.kind = "Descendant" ->
                IF ~Matches(sel.descendant, doc, n) THEN FALSE
                ELSE AncestorWalk(sel.ancestor, doc, WalkStart(doc, n))
         [] sel.kind = "Child" ->
                /\ Matches(sel.child, doc, n)
                /\ (IF doc.parent[n] /= 0
                    THEN Matches(sel.parent, doc, doc.parent[n])
                    ELSE FALSE)

\* the selector is applied to every node of the document
Evaluate ==
    /\ sel_pc = "ready"
    /\ matched' = {n \in Nodes(document) : Matches(selector, document, n)}
    /\ sel_pc' = "done"
    /\ UNCHANGED <<pipeVars, uConc, uLoad, metrics, uSink, uExtract, uRec, document,
                   selector>>

SelectorInit ==
    /\ PipeIdle
    /\ ConcIdle
    /\ LoadIdle
    /\ SinkIdle
    /\ ExtractIdle
    /\ RecIdle
    /\ document \in Documents
    /\ selector \in Selectors
    /\ sel_pc = "ready"
    /\ matched = {}
SelectorNext == Evaluate
SelectorSpec == SelectorInit /\ [][SelectorNext]_vars

\* ------------------------------------------------------- ConfigLoader
Ok(c) == [ok |-> TRUE, config |-> c, err |-> ""]
Err(kind) == [ok |-> FALSE, config |-> ConfigDefault, err |-> kind]

\* schema.rs 7-13: #[validate(length(min = 1))] on name and start_urls
Valid(c) == Len(c.name) >= 1 /\ Len(c.start_urls) >= 1

\* variant: every field of the child replaces the parent's
merge_configs_child_wins(parent, child) ==
    [name |-> child.name,
     start_urls |-> child.start_urls,
     root_selector |-> child.root_selector,
     concurrency |-> child.concurrency,
     delay_ms |-> child.delay_ms,
     output |-> child.output,
     extraction_rules |->
         [k \in DOMAIN parent.extraction_rules \cup
                 DOMAIN child.extraction_rules |->
             IF k \in DOMAIN child.extraction_rules
             THEN child.extraction_rules[k]
             ELSE parent.extraction_rules[k]],
     extends |-> None]
\* loader.rs 85-111: merge_configs
merge_configs(parent, child) ==
    [name |-> IF child.name /= "" THEN child.name ELSE parent.name,
     start_urls |-> IF child.start_urls /= <<>> THEN child.start_urls
                    ELSE parent.start_urls,
     root_selector |-> IF child.root_selector /= None
                       THEN child.root_selector ELSE parent.root_selector,
     concurrency |-> IF child.concurrency /= 2 THEN child.concurrency
                     ELSE parent.concurrency,
     delay_ms |-> IF child.delay_ms /= 500 THEN child.delay_ms
                  ELSE parent.delay_ms,
     output |-> IF child.output /= None THEN child.output ELSE parent.output,
     extraction_rules |->
         [k \in DOMAIN parent.extraction_rules \cup
                 DOMAIN child.extraction_rules |->
             IF k \in DOMAIN child.extraction_rules
             THEN child.extraction_rules[k]
             ELSE parent.extraction_rules[k]],
     extends |-> None]

\* the documents a configuration file can hold, apart from extends
FullDoc ==
    [ConfigDefault EXCEPT !.name = "n", !.start_urls = <<"u">>,
                          !.concurrency = 3,
                          !.extraction_rules = [k \in {1} |-> "s"]]
OnlyNameDoc == [ConfigDefault EXCEPT !.name = "c"]
OnlyUrlsDoc == [ConfigDefault EXCEPT !.start_urls = <<"u">>]
ZeroConcDoc ==
    [ConfigDefault EXCEPT !.name = "n", !.start_urls = <<"u">>,
                          !.concurrency = 0]
EmptySelDoc ==
    [ConfigDefault EXCEPT !.name = "n", !.start_urls = <<"u">>,
                          !.extraction_rules = [k \in {1} |-> ""]]
Docs ==
    {[d EXCEPT !.extends = e] :
         d \in {FullDoc, OnlyNameDoc, OnlyUrlsDoc, ZeroConcDoc, EmptySelDoc},
         e \in {None, <<"parent">>}}

\* variant: a path seen before is reported as a validation error
CircularError_validation == Err("Validation")
\* loader.rs 29-34: Circular inheritance detected
CircularError == Err("Config")

\* variant: every call validates its result
is_parent_load_never(stack) == FALSE
\* loader.rs 47: every call but the one made by load has is_parent_load
is_parent_load(stack) == stack /= <<>>

\* files are entered in the order 1, 2, ...: the next file not yet visited
NextFile == Cardinality(visited) + 1

\* loader.rs 25-27: fs::canonicalize fails, the path names no file
EnterMissing ==
    /\ ld_pc = "enter"
    /\ ld_result' = Err("Config")
    /\ ld_stack' = <<>>
    /\ ld_pc' = "done"
    /\ UNCHANGED <<pipeVars, uConc, metrics, uSink, uExtract, uRec, uSel, visited,
                   reads, cycle_at>>

\* loader.rs 29-34: the canonical path is in visited
EnterVisited(f) ==
    /\ ld_pc = "enter"
    /\ f \in visited
    /\ ld_result' = CircularError
    /\ cycle_at' = f
    /\ ld_stack' = <<>>
    /\ ld_pc' = "done"
    /\ UNCHANGED <<pipeVars, uConc, metrics, uSink, uExtract, uRec, uSel, visited,
                   reads>>

\* loader.rs 35-48: the path is inserted, the file is read and parsed, and
\* a document with extends makes the recursive call for its parent
EnterRead(doc, parsed) ==
    /\ ld_pc = "enter"
    /\ NextFile \in Files
    /\ visited' = visited \cup {NextFile}
    /\ reads' = [reads EXCEPT ![NextFile] = @ + 1]
    /\ IF ~parsed
       THEN /\ ld_result' = Err("Parse")
            /\ ld_stack' = <<>>
            /\ ld_pc' = "done"
       ELSE IF doc.extends /= None
       THEN /\ ld_stack' = <<doc>> \o ld_stack
            /\ ld_pc' = "enter"
            /\ UNCHANGED ld_result
       ELSE /\ ld_result' = Ok(doc)
            /\ ld_pc' = "return"
            /\ UNCHANGED ld_stack
    /\ UNCHANGED <<pipeVars, uConc, metrics, uSink, uExtract, uRec, uSel, cycle_at>>

\* loader.rs 53-56: the call made by load finds its result invalid
ValidateFail ==
    /\ ld_pc = "return"
    /\ ~is_parent_load(ld_stack)
    /\ ~Valid(ld_result.config)
    /\ ld_result' = Err("Validation")
    /\ ld_stack' = <<>>
    /\ ld_pc' = "done"
    /\ UNCHANGED <<pipeVars, uConc, metrics, uSink, uExtract, uRec, uSel, visited,
                   reads, cycle_at>>

\* loader.rs 53-58: the call made by load returns Ok(final_config)
ReturnTop ==
    /\ ld_pc = "return"
    /\ ld_stack = <<>>
    /\ is_parent_load(ld_stack) \/ Valid(ld_result.config)
    /\ ld_pc' = "done"
    /\ UNCHANGED <<pipeVars, uConc, metrics, uSink, uExtract, uRec, uSel, visited,
                   ld_stack, ld_result, reads, cycle_at>>

\* loader.rs 47-48, 58: a parent load returns and its caller merges
ReturnToChild ==
    /\ ld_pc = "return"
    /\ ld_stack /= <<>>
    /\ is_parent_load(ld_stack) \/ Valid(ld_result.config)
    /\ ld_result' = Ok(merge_configs(ld_result.config, Head(ld_stack)))
    /\ ld_stack' = Tail(ld_stack)
    /\ UNCHANGED <<pipeVars, uConc, metrics, uSink, uExtract, uRec, uSel, ld_pc,
                   visited, reads, cycle_at>>

\* loader.rs 14-18: load(path) with an empty visited set
LoaderInit ==
    /\ PipeIdle
    /\ ConcIdle
    /\ SinkIdle
    /\ ExtractIdle
    /\ RecIdle
    /\ SelIdle
    /\ ld_pc = "enter"
    /\ visited = {}
    /\ ld_stack = <<>>
    /\ ld_result = NoResult
    /\ reads = [f \in Files |-> 0]
    /\ cycle_at = 0
LoaderNext ==
    \/ EnterMissing
    \/ \E f \in Files : EnterVisited(f)
    \/ \E doc \in Docs, parsed \in BOOLEAN : EnterRead(doc, parsed)
    \/ ValidateFail
    \/ ReturnTop
    \/ ReturnToChild
LoaderSpec == LoaderInit /\ [][LoaderNext]_vars /\ WF_vars(LoaderNext)

\* a parent configuration as load_with_inheritance returns it
ParentConfigs ==
    [name : {"", "p"}, start_urls : {<<>>, <<"pu">>},
     root_selector : {None, <<"pr">>}, concurrency : {2, 5},
     delay_ms : {500, 100}, output : {None, <<"po">>},
     extraction_rules : UNION {[K -> {"ps"}] : K \in SUBSET FieldNames},
     extends : {None}]
\* a child document that extends it
ChildConfigs ==
    [name : {"", "c"}, start_urls : {<<>>, <<"cu">>},
     root_selector : {None, <<"cr">>}, concurrency : {2, 3},
     delay_ms : {500, 0}, output : {None, <<"co">>},
     extraction_rules : UNION {[K -> {"cs"}] : K \in SUBSET FieldNames},
     extends : {<<"parent">>}]

\* loader.rs 47: the parent of the file given to load has been loaded
MergeInit ==
    /\ PipeIdle
    /\ ConcIdle
    /\ SinkIdle
    /\ ExtractIdle
    /\ RecIdle
    /\ SelIdle
    /\ ld_pc = "return"
    /\ visited = {1, 2}
    /\ \E child \in ChildConfigs : ld_stack = <<child>>
    /\ \E parent \in ParentConfigs : ld_result = Ok(parent)
    /\ reads = [f \in Files |-> IF f \in {1, 2} THEN 1 ELSE 0]
    /\ cycle_at = 0
MergeNext == ReturnToChild \/ ReturnTop \/ ValidateFail
MergeSpec == MergeInit /\ [][MergeNext]_vars

\* ------------------------------------- MetricsCollector, concurrent calls
\* a task calls record_success or record_failure
CallRecord(w, op) ==
    /\ wr_pc[w] = "idle"
    /\ rec_success + rec_failure < MaxRecords
    /\ wr_op' = [wr_op EXCEPT ![w] = op]
    /\ wr_pc' = [wr_pc EXCEPT ![w] = "total"]
    /\ rec_success' = IF op = "success" THEN rec_success + 1 ELSE rec_success
    /\ rec_failure' = IF op = "failure" THEN rec_failure + 1 ELSE rec_failure
    /\ UNCHANGED <<pipeVars, uSink, uExtract, uSel, uLoad, metrics,
                   rec_latency, snap, sn_pc, sn_local>>

\* collector.rs 77, 84: requests_total.fetch_add(1)
AddTotal(w) ==
    /\ wr_pc[w] = "total"
    /\ metrics' = [metrics EXCEPT !.requests_total = @ + 1]
    /\ wr_pc' = [wr_pc EXCEPT ![w] = "outcome"]
    /\ UNCHANGED <<pipeVars, uSink, uExtract, uSel, uLoad, uRec, wr_op,
                   sn_pc, sn_local>>

\* collector.rs 78, 85: requests_success / requests_failed .fetch_add(1)
AddOutcome(w) ==
    /\ wr_pc[w] = "outcome"
    /\ metrics' = IF wr_op[w] = "success"
                  THEN [metrics EXCEPT !.requests_success = @ + 1]
                  ELSE [metrics EXCEPT !.requests_failed = @ + 1]
    /\ wr_pc' = [wr_pc EXCEPT ![w] = "time"]
    /\ UNCHANGED <<pipeVars, uSink, uExtract, uSel, uLoad, uRec, wr_op,
                   sn_pc, sn_local>>

\* collector.rs 79-80, 86-87: total_response_time_ms.fetch_add, return
AddTime(w, d) ==
    /\ wr_pc[w] = "time"
    /\ metrics' = [metrics EXCEPT !.total_response_time_ms = @ + d]
    /\ rec_latency' = rec_latency + d
    /\ wr_pc' = [wr_pc EXCEPT ![w] = "idle"]
    /\ UNCHANGED <<pipeVars, uSink, uExtract, uSel, uLoad, rec_success,
                   rec_failure, snap, wr_op, sn_pc, sn_local>>

\* collector.rs 91: requests_total.load
LoadTotal ==
    /\ sn_pc = "idle"
    /\ sn_local' = [sn_local EXCEPT !.total_requests = metrics.requests_total]
    /\ sn_pc' = "success"
    /\ UNCHANGED <<pipeVars, uSink, uExtract, uSel, uLoad, uRec, metrics,
                   wr_pc, wr_op>>

\* collector.rs 92: requests_success.load
LoadSuccess ==
    /\ sn_pc = "success"
    /\ sn_local' = [sn_local EXCEPT !.success = metrics.requests_success]
    /\ sn_pc' = "failed"
    /\ UNCHANGED <<pipeVars, uSink, uExtract, uSel, uLoad, uRec, metrics,
                   wr_pc, wr_op>>

\* collector.rs 93: requests_failed.load
LoadFailed ==
    /\ sn_pc = "failed"
    /\ sn_local' = [sn_local EXCEPT !.failed = metrics.requests_failed]
    /\ sn_pc' = "time"
    /\ UNCHANGED <<pipeVars, uSink, uExtract, uSel, uLoad, uRec, metrics,
                   wr_pc, wr_op>>

\* collector.rs 94-129: total_response_time_ms.load, the derived values and
\* the remaining loads
BuildSnapshot ==
    /\ sn_pc = "time"
    /\ snap' = [taken |-> TRUE,
                value |-> snapshot(
                    [metrics EXCEPT
                         !.requests_total = sn_local.total_requests,
                         !.requests_success = sn_local.success,
                         !.requests_failed = sn_local.failed])]
    /\ sn_pc' = "done"
    /\ UNCHANGED <<pipeVars, uSink, uExtract, uSel, uLoad, metrics,
                   rec_success, rec_failure, rec_latency, wr_pc, wr_op,
                   sn_local>>

ConcInit ==
    PipeIdle /\ SinkIdle /\ ExtractIdle /\ RecIdle /\ SelIdle /\ LoadIdle /\
    ConcIdle
ConcNext ==
    \/ \E w \in Writers, op \in {"success", "failure"} : CallRecord(w, op)
    \/ \E w \in Writers : AddTotal(w)
    \/ \E w \in Writers : AddOutcome(w)
    \/ \E w \in Writers : AddTime(w, MaxLatency)
    \/ LoadTotal
    \/ LoadSuccess
    \/ LoadFailed
    \/ BuildSnapshot
ConcSpec == ConcInit /\ [][ConcNext]_vars

\* ------------------------------------------------------------- properties
\* run returned through the barrier branch of the select
NaturalCompletion == main_pc = "returned" /\ ~interrupted
\* the futures of for_each_concurrent that have completed
Completed == {u \in UrlIds : branch[u].pc = "done"}
\* the start URLs of this run
StartUrls == 1..num_urls

\* C1: the scraper task drops its item sender, and the item channel is
\* closed, only when no fetch branch is in flight or still has items to push.
C1_CloseAfterAllBranches ==
    /\ scr_pc \in {"barrier", "done"} => InFlight = {} /\ urls = <<>>
    /\ (scr_pc /= "idle" /\ items_senders = 0) =>
           /\ InFlight = {}
           /\ scr_pc \in {"barrier", "done"}
C1_Witness ==
    /\ scr_pc = "done"
    /\ items_senders = 0
    /\ Cardinality(Completed) >= 2
    /\ items_enqueued >= 2

\* C2: the number of fetch branches in flight never exceeds the configured
\* concurrency.
C2_AtMostNInFlight == Cardinality(InFlight) <= concurrency

\* C3: neither channel ever holds more than its capacity, and every value
\* pushed is either still queued or was popped, in push order (nothing is
\* dropped or overwritten).
C3_BoundedQueues ==
    /\ Len(urls) <= UrlCap
    /\ Len(items) <= ItemCap
    /\ urls_enqueued = urls_dequeued \o urls
    /\ items_enqueued = metrics.items_processed + Len(items)
\* both channels are full and a fetch branch is suspended in its send
C3_Witness ==
    /\ Len(urls) = UrlCap
    /\ Len(items) = ItemCap
    /\ \E u \in UrlIds : branch[u].pc = "send"
    /\ seed_pc = "done"

\* C4: unless an interrupt arrives, under fair scheduling all three parties
\* pass the barrier and run returns with the state Stopped.
C4_NaturalCompletion ==
    <>(\/ interrupted
       \/ /\ main_pc = "returned"
          /\ state = "Stopped"
          /\ main_arrived
          /\ scr_pc = "done"
          /\ proc_pc = "done"
          /\ barrier_gen = 1)
\* a completed run with more start URLs and more items than the channels hold
C4_Witness ==
    /\ NaturalCompletion
    /\ scr_pc = "done"
    /\ proc_pc = "done"
    /\ num_urls > UrlCap
    /\ items_enqueued > ItemCap

\* C5: the interrupt sets the state to Stopped and lets run return without
\* the barrier; the step leaves the seeding, scraper and processor tasks, both
\* channels and the barrier as they are.
C5_InterruptStep ==
    (~interrupted /\ interrupted') =>
        /\ state' = "Stopped"
        /\ main_pc' = "finished"
        /\ UNCHANGED <<uSeed, uScraper, uProc, uBarrier, urls, urls_senders,
                       items, items_senders>>
C5_InterruptReturns ==
    /\ [][C5_InterruptStep]_vars
    /\ []((interrupted /\ main_pc = "returned") => state = "Stopped")
\* run has returned on interrupt, nobody was released from the barrier, a
\* fetch branch is in flight and the processor is inside spider.process
C5_Witness ==
    /\ interrupted
    /\ main_pc = "returned"
    /\ barrier_gen = 0
    /\ InFlight /= {}
    /\ proc_pc = "process"

\* C6: the state only moves Idle -> Running -> Stopped, is never Paused, is
\* Idle before run and Stopped once run has returned.
C6_StateStep ==
    state' /= state =>
        \/ state = "Idle" /\ state' = "Running"
        \/ state = "Running" /\ state' = "Stopped"
C6_StateOrder ==
    /\ [][C6_StateStep]_vars
    /\ [](state \in {"Idle", "Running", "Stopped"})
    /\ [](main_pc = "new" <=> state = "Idle")
    /\ [](main_pc = "returned" => state = "Stopped")
C6_Witness == NaturalCompletion /\ state = "Stopped" /\ process_calls > 0

\* C7: spider.close() is called at most once, only when the item channel is
\* closed and empty, before the processor arrives at the barrier, and no
\* spider.process() call follows it.
C7_CloseOnce ==
    /\ close_calls <= 1
    /\ proc_pc = "close" => StreamEnded(items, items_senders)
    /\ close_calls > 0 =>
           /\ items = <<>>
           /\ items_senders = 0
           /\ proc_pc \in {"arrive", "barrier", "done"}
    /\ proc_pc \in {"arrive", "barrier", "done"} => close_calls = 1
    /\ ~late_process
C7_Witness ==
    /\ close_calls = 1
    /\ proc_pc = "barrier"
    /\ process_calls >= 2

\* C8: a failed scrape counts one failed request and pushes nothing, every
\* start URL is attempted at most once, and on natural completion every start
\* URL was attempted once and requests_total is the number of start URLs.
Failed == {u \in UrlIds : branch[u].result = "err"}
Succeeded == {u \in UrlIds : branch[u].result = "ok"}
C8_FailureIsolated ==
    /\ metrics.requests_failed = Cardinality(Failed)
    /\ metrics.requests_success = Cardinality(Succeeded)
    /\ metrics.requests_total = Cardinality(Failed) + Cardinality(Succeeded)
    /\ \A u \in Failed : branch[u].pc \in {"sleep", "done"}
    /\ \A i \in 1..Len(items) : items[i][1] \notin Failed
    /\ proc_item /= <<>> => proc_item[1] \notin Failed
    /\ \A u \in UrlIds : attempts[u] <= 1
    /\ NaturalCompletion =>
           /\ \A u \in StartUrls : attempts[u] = 1
           /\ metrics.requests_total = num_urls
C8_Witness ==
    /\ NaturalCompletion
    /\ Failed /= {}
    /\ \E u \in Succeeded : branch[u].total > 0
    /\ 1 \in Failed

\* C9 as stated: each drained item is counted in items_processed when its
\* write succeeded or in items_failed when its write failed.
C9_OneCounterPerItem ==
    proc_pc /= "process" =>
        metrics.items_processed + metrics.items_failed = process_calls
\* C9 amended: every drained item is counted in items_processed before
\* spider.process is called, whatever the outcome; a write error adds one to
\* items_failed; after either outcome the processor takes the next item, and
\* on natural completion every pushed item was drained.
C9_ProcessStep ==
    process_calls' /= process_calls =>
        /\ proc_pc' = "recv"
        /\ metrics'.items_processed = metrics.items_processed
C9_CountsEveryItem ==
    /\ [][C9_ProcessStep]_vars
    /\ [](metrics.items_failed = process_errors)
    /\ [](metrics.items_processed =
             process_calls + (IF proc_pc = "process" THEN 1 ELSE 0))
    /\ [](NaturalCompletion => metrics.items_processed = items_enqueued)
C9_Witness ==
    /\ NaturalCompletion
    /\ process_errors >= 1
    /\ process_calls > process_errors
    /\ metrics.items_processed = process_calls

\* C10: the seeding task pushes the start URLs once each, in order, counting
\* each in urls_queued; the URL channel is closed only after the last one;
\* nothing else is ever pushed; on natural completion urls_queued is the
\* number of start URLs.
C10_Seeding ==
    /\ Len(urls_enqueued) <= num_urls
    /\ \A i \in 1..Len(urls_enqueued) : urls_enqueued[i] = i
    /\ metrics.urls_queued = seed_idx - 1
    /\ Len(urls_enqueued) = metrics.urls_queued
                              + (IF seed_pc = "count" THEN 1 ELSE 0)
    /\ seed_pc = "done" <=> (main_pc \notin {"new", "spawn"}
                               /\ urls_senders = 0)
    /\ seed_pc = "done" => metrics.urls_queued = num_urls
    /\ NaturalCompletion => metrics.urls_queued = num_urls
C10_Witness ==
    /\ NaturalCompletion
    /\ num_urls = MaxUrls
    /\ metrics.urls_queued = MaxUrls
    /\ urls_dequeued = urls_enqueued

\* the fraction r equals the integer n
RateIs(r, n) == r.num = n * r.den

\* C11: a branch starts its delay only after its result was recorded and its
\* items were pushed, active_workers is decremented only by a branch that
\* ends its delay, and a delaying branch still occupies its fan-out slot.
Occupying == {u \in UrlIds : branch[u].pc \in {"scrape", "send", "sleep"}}
Pushed(u) ==
    IF branch[u].pc = "send" THEN branch[u].next - 1
    ELSE IF branch[u].pc \in {"sleep", "done"} THEN branch[u].total
    ELSE 0
RECURSIVE SumPushed(_)
SumPushed(n) == IF n = 0 THEN 0 ELSE Pushed(n) + SumPushed(n - 1)
C11_Step ==
    /\ \A u \in UrlIds :
           (branch[u].pc /= "done" /\ branch'[u].pc = "done") =>
               /\ branch[u].pc = "sleep"
               /\ metrics'.active_workers = metrics.active_workers - 1
    /\ \A u \in UrlIds :
           (branch[u].pc /= "sleep" /\ branch'[u].pc = "sleep") =>
               /\ branch[u].pc \in {"scrape", "send"}
               /\ metrics'.active_workers = metrics.active_workers
    /\ metrics'.active_workers < metrics.active_workers =>
           \E u \in UrlIds : branch[u].pc = "sleep" /\ branch'[u].pc = "done"
    /\ (urls_dequeued' /= urls_dequeued /\ concurrency > 0) =>
           Cardinality(Occupying) < concurrency
C11_DelayBeforeDecrement ==
    /\ [][C11_Step]_vars
    /\ [](\A u \in UrlIds :
              branch[u].pc = "sleep" => branch[u].result \in {"ok", "err"})
    /\ [](metrics.active_workers = Cardinality(Occupying))
    /\ [](metrics.requests_total =
              Cardinality({u \in UrlIds :
                              branch[u].pc \in {"send", "sleep", "done"}}))
    /\ [](items_enqueued = SumPushed(MaxUrls))
\* with concurrency 1 a failed branch is in its delay, still counted, while a
\* URL waits in the channel
C11_Witness ==
    /\ concurrency = 1
    /\ \E u \in UrlIds : branch[u].pc = "sleep" /\ branch[u].result = "err"
    /\ urls /= <<>>
    /\ metrics.active_workers = 1

C14_Broadcast == main_pc /= "new" => state_watcher = state

\* C15: a spider.close() that fails leaves a trace: a log entry or a counter
\* changes in the step that receives the error.
C15_Step ==
    (close_failed' /\ ~close_failed) =>
        (log_errors' /= log_errors \/ metrics' /= metrics)
C15_CloseFailureSurfaced == [][C15_Step]_vars

\* C18 as stated: after natural completion with every scrape successful and
\* k items each, items_extracted = N*k, requests_success = N, requests_failed
\* = 0, urls_processed = N and success_rate = 100.
AllSucceeded(k) ==
    /\ NaturalCompletion
    /\ \A u \in StartUrls : branch[u].result = "ok" /\ branch[u].total = k
CountersAfter(k) ==
    /\ metrics.items_extracted = num_urls * k
    /\ metrics.requests_success = num_urls
    /\ metrics.requests_failed = 0
    /\ metrics.urls_processed = num_urls
C18_AllSuccessful ==
    \A k \in 0..MaxItems :
        AllSucceeded(k) =>
            /\ CountersAfter(k)
            /\ RateIs(snapshot(metrics).success_rate, 100)
\* C18 amended: the counters are as stated; success_rate is 100 when there is
\* at least one start URL and 0 when there is none.
C18_AllSuccessfulNonEmpty ==
    \A k \in 0..MaxItems :
        AllSucceeded(k) =>
            /\ CountersAfter(k)
            /\ snapshot(metrics).requests_success = num_urls
            /\ RateIs(snapshot(metrics).success_rate,
                      IF num_urls >= 1 THEN 100 ELSE 0)
C18_Witness ==
    /\ AllSucceeded(MaxItems)
    /\ num_urls = MaxUrls
    /\ metrics.items_extracted = MaxUrls * MaxItems
    /\ RateIs(snapshot(metrics).success_rate, 100)

\* C13: a sink operation runs only under the mutex, so at most one write or
\* close is in progress at any time.
InSinkOp == {c \in Callers : caller_pc[c] = "op"}
C13_SinkExclusive ==
    /\ Cardinality(InSinkOp) <= 1
    /\ \A c \in InSinkOp : output_handler = c
    /\ output_handler /= 0 => output_handler \in InSinkOp
\* a write is in progress while a close waits for the mutex
C13_Witness ==
    /\ \E c \in Callers : caller_pc[c] = "op" /\ caller_op[c] = "write"
    /\ \E c \in Callers : caller_pc[c] = "lock" /\ caller_op[c] = "close"
    /\ \E c \in Callers : calls_made[c] > 0

\* C16: with a root selector scrape returns as many items as the longest
\* result sequence has elements; item i has exactly the fields with an i-th
\* result, with that result as value; no item is empty.
C16_Alignment ==
    (extract_pc = "done" /\ root_selector) =>
        /\ \A f \in DOMAIN field_results :
               Len(field_results[f]) <= Len(scraped)
        /\ DOMAIN field_results /= {} =>
               \E f \in DOMAIN field_results :
                   Len(field_results[f]) = Len(scraped)
        /\ DOMAIN field_results = {} => scraped = <<>>
        /\ \A i \in 1..Len(scraped) :
               /\ DOMAIN scraped[i] =
                      {f \in DOMAIN field_results : Len(field_results[f]) >= i}
               /\ DOMAIN scraped[i] /= {}
               /\ \A f \in DOMAIN scraped[i] :
                      scraped[i][f] = field_results[f][i]
\* sequences of length 3 and 2 give 3 items, the third without field 2
C16_Witness ==
    /\ extract_pc = "done"
    /\ root_selector
    /\ DOMAIN field_results = {1, 2}
    /\ Len(field_results[1]) = 3
    /\ Len(field_results[2]) = 2
    /\ Len(scraped) = 3
    /\ DOMAIN scraped[3] = {1}

\* C17: in single item mode extract_data fails with an extraction error when
\* no rule has a non-empty result (scrape then returns no item); otherwise
\* scrape returns one item with exactly the fields that have one.
Matching == {f \in DOMAIN field_results : select(field_results[f]) /= ""}
C17_SingleItem ==
    (extract_pc = "done" /\ ~root_selector) =>
        /\ Matching = {} =>
               /\ ~extraction.ok
               /\ extraction.err = "Extraction"
               /\ scraped = <<>>
        /\ Matching /= {} =>
               /\ extraction.ok
               /\ Len(scraped) = 1
               /\ DOMAIN scraped[1] = Matching
               /\ \A f \in Matching :
                      scraped[1][f] = select(field_results[f])
\* two rules, one of them without a result: one item with the other field
C17_Witness ==
    /\ extract_pc = "done"
    /\ ~root_selector
    /\ DOMAIN field_results = {1, 2}
    /\ Matching = {2}
    /\ Len(scraped) = 1
    /\ DOMAIN scraped[1] = {2}

\* C19: a snapshot taken after S record_success and F record_failure calls
\* has requests_total = S+F, success_rate = 100*S/(S+F) and average latency
\* = accumulated latency divided by S+F, rounded down; both are 0 when
\* S+F = 0.
C19_SnapshotTotals ==
    snap.taken =>
        LET n == rec_success + rec_failure
            v == snap.value
        IN /\ v.requests_total = n
           /\ n > 0 =>
                  /\ v.success_rate.den > 0
                  /\ v.success_rate.num * n = 100 * rec_success * v.success_rate.den
                  /\ v.avg_response_time_ms * n <= rec_latency
                  /\ rec_latency < (v.avg_response_time_ms + 1) * n
           /\ n = 0 =>
                  /\ RateIs(v.success_rate, 0)
                  /\ v.avg_response_time_ms = 0
\* one success and two failures with 4 ms in total: rate 100/3, average 1
C19_Witness ==
    /\ snap.taken
    /\ rec_success = 1
    /\ rec_failure = 2
    /\ rec_latency = 4
    /\ snap.value.avg_response_time_ms = 1
    /\ snap.value.requests_total = 3

\* the nodes above n: its parent, the parent of its parent, ...
RECURSIVE StrictAncestors(_, _)
StrictAncestors(doc, n) ==
    IF doc.parent[n] = 0 THEN {}
    ELSE {doc.parent[n]} \cup StrictAncestors(doc, doc.parent[n])

\* C20: Descendant(a, d) matches a node iff d matches it and a matches one of
\* its strict ancestors; Child(p, c) matches a node iff c matches it and p
\* matches its immediate parent; a node without a parent matches neither.
C20_DescendantChild ==
    sel_pc = "done" =>
        \A n \in Nodes(document) :
            /\ selector.kind = "Descendant" =>
                   (n \in matched <=>
                        /\ Matches(selector.descendant, document, n)
                        /\ \E m \in StrictAncestors(document, n) :
                               Matches(selector.ancestor, document, m))
            /\ selector.kind = "Child" =>
                   (n \in matched <=>
                        /\ Matches(selector.child, document, n)
                        /\ document.parent[n] /= 0
                        /\ Matches(selector.parent, document,
                                   document.parent[n]))
            /\ (selector.kind \in {"Descendant", "Child"}
                    /\ document.parent[n] = 0) => n \notin matched
\* Child(p, c) on a node that c matches and whose grandparent, but not its
\* parent, matches p: the node is not matched
C20_Witness ==
    /\ sel_pc = "done"
    /\ selector.kind = "Child"
    /\ \E n \in Nodes(document) :
           /\ Matches(selector.child, document, n)
           /\ document.parent[n] /= 0
           /\ ~Matches(selector.parent, document, document.parent[n])
           /\ document.parent[document.parent[n]] /= 0
           /\ Matches(selector.parent, document,
                      document.parent[document.parent[n]])
           /\ n \notin matched

\* C21: And(list) matches a node iff every sub-selector matches it, Or(list)
\* iff at least one does; And([]) matches every node and Or([]) none, also
\* as a sub-selector of And, Or, Descendant and Child.
C21_AndOr ==
    sel_pc = "done" =>
        \A n \in Nodes(document) :
            /\ selector.kind = "And" =>
                   /\ n \in matched <=>
                          \A i \in 1..Len(selector.list) :
                              Matches(selector.list[i], document, n)
                   /\ selector.list = <<>> => n \in matched
                   /\ (\E i \in 1..Len(selector.list) :
                           selector.list[i] = OrEmpty) => n \notin matched
                   /\ n \in matched <=>
                          \A i \in 1..Len(selector.list) :
                              \/ selector.list[i] = AndEmpty
                              \/ /\ selector.list[i] \in Leaves
                                 /\ Matches(selector.list[i], document, n)
            /\ selector.kind = "Or" =>
                   /\ n \in matched <=>
                          \E i \in 1..Len(selector.list) :
                              Matches(selector.list[i], document, n)
                   /\ selector.list = <<>> => n \notin matched
                   /\ (\E i \in 1..Len(selector.list) :
                           selector.list[i] = AndEmpty) => n \in matched
            /\ (selector.kind = "Child" /\ selector.parent = AndEmpty) =>
                   (n \in matched <=>
                        /\ document.parent[n] /= 0
                        /\ Matches(selector.child, document, n))
            /\ (selector.kind = "Child" /\ selector.child = AndEmpty) =>
                   (n \in matched <=>
                        /\ document.parent[n] /= 0
                        /\ Matches(selector.parent, document,
                                   document.parent[n]))
            /\ (selector.kind = "Descendant"
                    /\ selector.descendant = AndEmpty) =>
                   (n \in matched <=>
                        \E m \in StrictAncestors(document, n) :
                            Matches(selector.ancestor, document, m))
            /\ (selector.kind = "Descendant"
                    /\ selector.ancestor = AndEmpty) =>
                   (n \in matched <=>
                        /\ document.parent[n] /= 0
                        /\ Matches(selector.descendant, document, n))
            /\ (selector.kind = "Child"
                    /\ OrEmpty \in {selector.parent, selector.child}) =>
                   n \notin matched
            /\ (selector.kind = "Descendant"
                    /\ OrEmpty \in {selector.ancestor, selector.descendant}) =>
                   n \notin matched
\* Or of an empty And and a leaf: a node the leaf does not match is matched
C21_Witness ==
    /\ sel_pc = "done"
    /\ selector.kind = "Or"
    /\ Len(selector.list) = 2
    /\ selector.list[1] \in Leaves
    /\ selector.list[2] = AndEmpty
    /\ \E n \in Nodes(document) :
           /\ ~Matches(selector.list[1], document, n)
           /\ n \in matched

\* C22: merge_configs takes a scalar field from the child when the child
\* sets it to a non-default value and from the parent otherwise; the merged
\* rules are the union of both mappings, the child's rule on a shared key.
C22_MergeStep ==
    (ld_pc = "return" /\ ld_stack /= <<>> /\ ld_stack' = Tail(ld_stack)) =>
        LET p == ld_result.config
            c == Head(ld_stack)
            r == ld_result'.config
        IN /\ ld_result'.ok
           /\ r.name = (IF c.name = ConfigDefault.name THEN p.name ELSE c.name)
           /\ r.start_urls = (IF c.start_urls = ConfigDefault.start_urls
                              THEN p.start_urls ELSE c.start_urls)
           /\ r.root_selector =
                  (IF c.root_selector = ConfigDefault.root_selector
                   THEN p.root_selector ELSE c.root_selector)
           /\ r.concurrency = (IF c.concurrency = ConfigDefault.concurrency
                               THEN p.concurrency ELSE c.concurrency)
           /\ r.delay_ms = (IF c.delay_ms = ConfigDefault.delay_ms
                            THEN p.delay_ms ELSE c.delay_ms)
           /\ r.output = (IF c.output = ConfigDefault.output
                          THEN p.output ELSE c.output)
           /\ r.extends = p.extends
           /\ DOMAIN r.extraction_rules =
                  DOMAIN p.extraction_rules \cup DOMAIN c.extraction_rules
           /\ \A k \in DOMAIN c.extraction_rules :
                  r.extraction_rules[k] = c.extraction_rules[k]
           /\ \A k \in DOMAIN p.extraction_rules \ DOMAIN c.extraction_rules :
                  r.extraction_rules[k] = p.extraction_rules[k]
C22_Merge == [][C22_MergeStep]_vars
\* a child that sets only name and one rule: the result has the child's
\* name, the parent's start_urls and concurrency, and the parent's other rule
C22_Witness ==
    /\ ld_pc = "done"
    /\ ld_result.ok
    /\ ld_result.config.name = "c"
    /\ ld_result.config.start_urls = <<"pu">>
    /\ ld_result.config.concurrency = 5
    /\ ld_result.config.delay_ms = 100
    /\ DOMAIN ld_result.config.extraction_rules = {1, 2}
    /\ ld_result.config.extraction_rules[1] = "cs"
    /\ ld_result.config.extraction_rules[2] = "ps"

\* C23 as stated: when the chain comes back to a visited path, load fails
\* with a configuration error, no file was read twice and every file read
\* lies on the cycle.
C23_OnlyCycleRead ==
    cycle_at > 0 =>
        /\ ~ld_result.ok
        /\ ld_result.err = "Config"
        /\ \A f \in Files :
               /\ reads[f] <= 1
               /\ reads[f] > 0 => f >= cycle_at
\* C23: when the chain comes back to a visited path, load fails with a
\* configuration error; no file is ever read twice, only files of the
\* extends chain are read, and load terminates.
C23_CycleDetected ==
    /\ [](cycle_at > 0 =>
              /\ ld_pc = "done"
              /\ ~ld_result.ok
              /\ ld_result.err = "Config")
    /\ [](\A f \in Files :
              /\ reads[f] <= 1
              /\ reads[f] > 0 => f \in visited)
    /\ <>(ld_pc = "done")
\* a chain of three files that comes back to its second file: every file
\* was read once, the first of them outside the cycle
C23_Witness ==
    /\ ld_pc = "done"
    /\ cycle_at = 2
    /\ visited = {1, 2, 3}
    /\ \A f \in visited : reads[f] = 1
    /\ ld_result.err = "Config"

\* C24: a configuration that load accepts has start URLs, no empty rule
\* selector and a concurrency of at least 1.
C24_AcceptedIsValid ==
    (ld_pc = "done" /\ ld_result.ok) =>
        /\ ld_result.config.start_urls /= <<>>
        /\ \A k \in DOMAIN ld_result.config.extraction_rules :
               ld_result.config.extraction_rules[k] /= ""
        /\ ld_result.config.concurrency >= 1

\* C25: only the call made by load validates, and it validates the merged
\* result: a parent load returns its configuration whatever it holds, load
\* returns the merged configuration when it is valid and a validation
\* error when it is not.
C25_ReturnStep ==
    ld_pc = "return" =>
        IF ld_stack /= <<>>
        THEN /\ ld_pc' = "return"
             /\ ld_result'.ok
        ELSE /\ ld_pc' = "done"
             /\ Valid(ld_result.config) => ld_result' = ld_result
             /\ ~Valid(ld_result.config) => ld_result' = Err("Validation")
C25_ValidatedOnce == [][C25_ReturnStep]_vars
\* a file with only a name extends a file with only start URLs: neither is
\* valid on its own, load returns the merged configuration
C25_Witness ==
    /\ ld_pc = "done"
    /\ ld_result.ok
    /\ visited = {1, 2}
    /\ ld_result.config.name = "c"
    /\ ld_result.config.start_urls = <<"u">>
    /\ ld_result.config.concurrency = DefaultConcurrency
    /\ ld_result.config.extraction_rules = <<>>

\* the items a successful scrape returned
Extracted == {<<u, i>> : u \in Succeeded, i \in 1..MaxItems} \cap
             {it \in UrlIds \X (1..MaxItems) : it[2] <= branch[it[1]].total}
\* C26: on natural completion every item a successful scrape returned was
\* passed to spider.process exactly once, no other item was, no process call
\* came after close, and both queues are empty.
C26_NoItemLost ==
    NaturalCompletion =>
        /\ \A u \in UrlIds, i \in 1..MaxItems :
               process_count[u][i] = IF <<u, i>> \in Extracted THEN 1 ELSE 0
        /\ process_calls = Cardinality(Extracted)
        /\ ~late_process
        /\ close_calls = 1
        /\ urls = <<>>
        /\ items = <<>>
        /\ proc_item = <<>>
\* two URLs scraped with two items each, four process calls, then close
C26_Witness ==
    /\ NaturalCompletion
    /\ Cardinality(Extracted) = 4
    /\ process_calls = 4
    /\ close_calls = 1

\* C27: items_processed never exceeds items_extracted, items_failed never
\* exceeds items_processed, and on natural completion items_processed
\* equals items_extracted.
C27_ItemCounters ==
    /\ metrics.items_processed <= metrics.items_extracted
    /\ metrics.items_failed <= metrics.items_processed
    /\ NaturalCompletion =>
           metrics.items_processed = metrics.items_extracted
\* an item is extracted and not yet taken by the processor, after an earlier
\* one failed to be written
C27_Witness ==
    /\ metrics.items_extracted = 2
    /\ metrics.items_processed = 1
    /\ metrics.items_failed = 1
    /\ proc_pc = "recv"

\* C28: urls_processed never exceeds urls_queued.
C28_ProcessedAtMostQueued ==
    metrics.urls_processed <= metrics.urls_queued

\* C29: active_workers is the number of fetch branches between their
\* increment and their decrement, never below zero, and 0 when run returns
\* by natural completion.
C29_ActiveWorkers ==
    /\ metrics.active_workers = Cardinality(Occupying)
    /\ metrics.active_workers >= 0
    /\ NaturalCompletion => metrics.active_workers = 0
\* two branches in flight, one of them in its delay
C29_Witness ==
    /\ metrics.active_workers = 2
    /\ \E u, v \in UrlIds :
           branch[u].pc = "sleep" /\ branch[v].pc = "scrape"

\* C30: a snapshot taken while record_success and record_failure run has
\* requests_success + requests_failed <= requests_total and a success_rate
\* of at most 100.
C30_SnapshotConsistent ==
    snap.taken =>
        /\ snap.value.requests_success + snap.value.requests_failed
               <= snap.value.requests_total
        /\ snap.value.success_rate.num <= 100 * snap.value.success_rate.den

\* C31: every node that Child(p, c) matches is matched by Descendant(p, c)
\* as well.
C31_ChildIsDescendant ==
    (sel_pc = "done" /\ selector.kind = "Child") =>
        \A n \in matched :
            Matches(Desc(selector.parent, selector.child), document, n)
\* a Child selector matches a node that has a grandparent
C31_Witness ==
    /\ sel_pc = "done"
    /\ selector.kind = "Child"
    /\ \E n \in matched :
           /\ document.parent[document.parent[n]] /= 0
           /\ Matches(Desc(selector.parent, selector.child), document, n)

====
